---- MODULE Spec2Model ----
(***************************************************************************)
(* Livestream archiver: the stability wait of                              *)
(* LivestreamArchiver::wait_for_file_ready, the per-file pipeline of       *)
(* LivestreamArchiver::process_file, and the startup scan and event loop   *)
(* of main.                                                                *)
(***************************************************************************)
EXTENDS Naturals, Sequences, FiniteSets, TLC

\* ---------------------------------------------------------------------------
\* Program constants
\* ---------------------------------------------------------------------------
required_stable_checks == 15
MaxChecks == 7200
ChanCap == 100
LedgerCap == 1000

\* ---------------------------------------------------------------------------
\* Bounds of the model
\* ---------------------------------------------------------------------------
\* file sizes a metadata read may report are 0..MaxSize
MaxSize == 2
\* modification times a metadata read may report are 1..MaxMTime
MaxMTime == 2
\* checks of one wait whose reads are kept as history
MaxObserved == 40

VARIABLES
    \* wait_for_file_ready
    wpc,            \* "idle" | "polling" | "ok" | "timeout" | "ioerr"
    i,              \* loop index of `for i in 0..7200`
    last_size,
    last_modified,  \* 0 stands for the SystemTime::now() taken before the loop
    stable_count,
    lastObs,        \* history: the previous metadata read (NoObs: none, or an empty file)
    same,           \* history: length of the trailing run of identical non-empty reads
    \* main
    mainpc,         \* "scan" | "recv" | "await" | "exited"
    toScan,         \* directory entries the startup scan has still to visit
    chan,           \* the mpsc channel from the watcher callback to the event loop
    blocked,        \* events the notification thread has still to send
    pending,        \* paths of the event in hand still to be handled
    processed,      \* processed_files: the set of canonical paths
    \* process_file
    runs,           \* calls of process_file that have not yet returned to main,
                    \* each with the output path it chose and the sidecar it wrote
    \* the file system
    watchDir,       \* source file -> content version, for the files that exist
    dirs,           \* year/month directories of the output tree
    outputs,        \* video files of the output tree
    nfos,           \* sidecar files of the output tree
    \* history
    changes,        \* number of changes the environment has made to the watched directory
    lastEv,         \* the event path handled last and what became of it
    lastRet,        \* the call of process_file that returned last
    doneSince,      \* canonical paths whose event run reached Done since the last clear
    doneEver,       \* canonical paths whose event run ever reached Done
    marks,          \* number of inserts into processed_files
    doneSlots,      \* output slots of the runs that reached Done
    shared,         \* a run reached Done on the slot of an earlier Done run
    launchTree      \* the video files of the output tree when the process started

waitVars == <<wpc, i, last_size, last_modified, stable_count, lastObs, same>>

mainVars == <<mainpc, toScan, chan, blocked, pending, processed>>

fsVars == <<watchDir, dirs, outputs, nfos>>

histVars == <<changes, lastEv, lastRet, doneSince, doneEver, marks, doneSlots, shared,
              launchTree>>

vars == <<wpc, i, last_size, last_modified, stable_count, lastObs, same,
          mainpc, toScan, chan, blocked, pending, processed, runs,
          watchDir, dirs, outputs, nfos,
          changes, lastEv, lastRet, doneSince, doneEver, marks, doneSlots, shared,
          launchTree>>

\* ---------------------------------------------------------------------------
\* wait_for_file_ready
\* ---------------------------------------------------------------------------
NoObs == [size |-> 0, mtime |-> 0]

Observations == [size : 0..MaxSize, mtime : 1..MaxMTime]

\* the history counter is kept only up to the length that matters
RunCap == required_stable_checks + 1

Min(a, b) == IF a < b THEN a ELSE b

\* the counter after a read of a non-empty file
StableAfter(cnt, lsize, lmod, obs) ==
    IF obs.size = lsize /\ obs.mtime = lmod THEN cnt + 1 ELSE 0

\* faulty variant: the loop's end reports success
LoopExitOk == "ok"

\* what the loop does once the 7200 iterations are used up
LoopExit == "timeout"

InitWait ==
    /\ wpc = "polling"
    /\ i = 0
    /\ last_size = 0
    /\ last_modified = 0
    /\ stable_count = 0
    /\ lastObs = NoObs
    /\ same = 0

\* the file the call waits for is in the watched directory
WaitedFileExists ==
    \E r \in runs : r.st = "Stabilizing" /\ r.path.file \in DOMAIN watchDir

\* one iteration whose metadata read succeeds
CheckOk(obs) ==
    /\ wpc = "polling"
    /\ i < MaxChecks
    /\ WaitedFileExists
    /\ IF obs.size > 0
       THEN LET cnt == StableAfter(stable_count, last_size, last_modified, obs)
            IN  /\ stable_count' = cnt
                /\ IF cnt >= required_stable_checks
                   THEN /\ wpc' = "ok"
                        /\ UNCHANGED <<i, last_size, last_modified>>
                   ELSE /\ last_size' = obs.size
                        /\ last_modified' = obs.mtime
                        /\ i' = i + 1
                        /\ wpc' = IF i + 1 = MaxChecks THEN LoopExit ELSE "polling"
       ELSE /\ UNCHANGED <<stable_count, last_size, last_modified>>
            /\ i' = i + 1
            /\ wpc' = IF i + 1 = MaxChecks THEN LoopExit ELSE "polling"

\* faulty variant: a failed read is logged and the loop goes on
AfterReadErrorPolls == "polling"

\* the Err arm of the match on metadata(): return Err(..)
AfterReadError == "ioerr"

\* one iteration whose metadata read fails (the file is gone, or the read
\* fails for another reason)
CheckErr ==
    /\ wpc = "polling"
    /\ i < MaxChecks
    /\ IF AfterReadError = "polling"
       THEN /\ i' = i + 1
            /\ wpc' = IF i + 1 = MaxChecks THEN LoopExit ELSE "polling"
       ELSE /\ i' = i
            /\ wpc' = AfterReadError
    /\ UNCHANGED <<last_size, last_modified, stable_count, lastObs, same>>

\* history of the reads, kept beside the loop's own variables
Observe(obs) ==
    /\ lastObs' = IF obs.size > 0 THEN obs ELSE NoObs
    /\ same' = IF obs.size = 0 THEN 0
               ELSE IF obs = lastObs THEN Min(same + 1, RunCap) ELSE 1

\* ---------------------------------------------------------------------------
\* File names, dates and output slots
\* ---------------------------------------------------------------------------
\* A source file name <y>-<m>-<d>_<t>.<ext>: the fields are the numbers the name
\* holds (t numbers the time of day); a path in the watched directory is its name.
FileName(y, m, d, t, ext) == [y |-> y, m |-> m, d |-> d, t |-> t, ext |-> ext]

NoDate == [y |-> 0, m |-> 0, d |-> 0]

IsLeap(y) == (y % 4 = 0 /\ y % 100 # 0) \/ y % 400 = 0

DaysIn(y, m) ==
    IF m \in {4, 6, 9, 11} THEN 30
    ELSE IF m = 2 THEN (IF IsLeap(y) THEN 29 ELSE 28)
    ELSE 31

\* path.extension() == Some("mp4")
HasMp4Extension(name) == name.ext = "mp4"

\* extract_date_from_filename: the suffix is stripped and the rest is parsed;
\* the parse fails on a month or a day that is no calendar date
extract_date_from_filename(name) ==
    IF name.ext # "mp4"
    THEN [ok |-> FALSE, date |-> NoDate]
    ELSE IF name.m \in 1..12 /\ name.d >= 1 /\ name.d <= DaysIn(name.y, name.m)
         THEN [ok |-> TRUE, date |-> [y |-> name.y, m |-> name.m, d |-> name.d]]
         ELSE [ok |-> FALSE, date |-> NoDate]

\* an output file: <y>/<m>-<Month>/<Title> | <Month> <d> <y>[ (n)].mp4,
\* cat "dw" for Divine Worship Service, "ap" for Afternoon Program, n = 0 for
\* no suffix
Slot(date, cat, n) == [y |-> date.y, m |-> date.m, d |-> date.d, cat |-> cat, n |-> n]

NoSlot == [y |-> 0, m |-> 0, d |-> 0, cat |-> "none", n |-> 0]

MonthDir(date) == [y |-> date.y, m |-> date.m]

divine_worship_file(date) == Slot(date, "dw", 0)

afternoon_program_file(date) == Slot(date, "ap", 0)

\* date.format("%Y"): the year, as four decimal digits
Year4(y) == <<y \div 1000, (y \div 100) % 10, (y \div 10) % 10, y % 10>>

\* faulty variant: month and day are printed without their leading zero
Pad2Unpadded(n) == IF n < 10 THEN <<n>> ELSE <<n \div 10, n % 10>>

\* date.format("%m") and date.format("%d"): two decimal digits
Pad2(n) == <<n \div 10, n % 10>>

\* date.format("%-d"): the day without padding
Unpadded(n) == IF n < 10 THEN <<n>> ELSE <<n \div 10, n % 10>>

\* date.format("%B")
MonthName(m) ==
    <<"January", "February", "March", "April", "May", "June", "July", "August",
      "September", "October", "November", "December">>[m]

\* nfo_tag
CategoryTag(cat) == IF cat = "dw" THEN "Divine Worship Service" ELSE "Afternoon Program"

\* "<tag> - RTSDA | <month name> <day> <year>" and " (<suffix>)" when n > 0
TitleLine(slot, day) ==
    [tag |-> CategoryTag(slot.cat), show |-> "RTSDA", month |-> MonthName(slot.m),
     day |-> day, year |-> Year4(slot.y), suffix |-> slot.n]

\* base_filename
base_filename(slot) == TitleLine(slot, Pad2(slot.d))

\* nfo_title
nfo_title(slot) == TitleLine(slot, Unpadded(slot.d))

NoTitle == [tag |-> "none", show |-> "none", month |-> "none", day |-> <<>>,
            year |-> <<>>, suffix |-> 0]

NoPath == [year_dir |-> <<>>, month_dir |-> [num |-> <<>>, name |-> "none"],
           base |-> NoTitle, ext |-> "none"]

\* output_file: <year>/<month>-<month name>/<base_filename>.mp4 under the
\* output directory
output_file(slot) ==
    IF slot.cat = "none" THEN NoPath
    ELSE [year_dir |-> Year4(slot.y),
          month_dir |-> [num |-> Pad2(slot.m), name |-> MonthName(slot.m)],
          base |-> base_filename(slot),
          ext |-> "mp4"]

NoNfo ==
    [path |-> NoPath, title |-> NoTitle, showtitle |-> "none", season |-> <<>>,
     episode |-> <<>>, aired |-> <<>>, displayseason |-> <<>>,
     displayepisode |-> <<>>, tag |-> "none"]

\* nfo_path and nfo_content, for the parsed date and the chosen output
NfoFile(date, slot) ==
    [path |-> [output_file(slot) EXCEPT !.ext = "nfo"],
     title |-> nfo_title(slot),
     showtitle |-> "LiveStreams",
     season |-> Year4(date.y),
     episode |-> Pad2(date.m) \o Pad2(date.d),
     aired |-> <<Year4(date.y), Pad2(date.m), Pad2(date.d)>>,
     displayseason |-> Year4(date.y),
     displayepisode |-> Pad2(date.m) \o Pad2(date.d),
     tag |-> CategoryTag(slot.cat)]

\* faulty variant: the suffix is used without probing further
ProbeSuffixNoLoop(outs, date, suffix) == suffix

\* the suffix loop: while test_file.exists() { suffix += 1 }
RECURSIVE ProbeSuffix(_, _, _)
ProbeSuffix(outs, date, suffix) ==
    IF Slot(date, "ap", suffix) \in outs
    THEN ProbeSuffix(outs, date, suffix + 1)
    ELSE suffix

\* faulty variant: the primary category is given without looking
ResolveNamePrimaryAlways(outs, date) == Slot(date, "dw", 0)

\* faulty variant: the secondary category is tried first
ResolveNameSecondaryFirst(outs, date) ==
    IF Slot(date, "ap", 0) \notin outs
    THEN Slot(date, "ap", 0)
    ELSE IF Slot(date, "dw", 0) \notin outs
         THEN Slot(date, "dw", 0)
         ELSE Slot(date, "ap", ProbeSuffix(outs, date, 1))

\* the output file process_file chooses for a date, given the files that exist
ResolveName(outs, date) ==
    IF divine_worship_file(date) \notin outs
    THEN divine_worship_file(date)
    ELSE IF afternoon_program_file(date) \notin outs
         THEN afternoon_program_file(date)
         ELSE Slot(date, "ap", ProbeSuffix(outs, date, 1))

\* ---------------------------------------------------------------------------
\* The dedup ledger and the calls of process_file
\* ---------------------------------------------------------------------------
\* an event path names a file directly or through a symbolic link
EventPath(file, via) == [file |-> file, via |-> via]

\* std::fs::canonicalize: fails when the file does not exist
Canonicalize(ep, dir) ==
    IF ep.file \in DOMAIN dir
    THEN [ok |-> TRUE, path |-> ep.file]
    ELSE [ok |-> FALSE, path |-> ep.file]

\* faulty variant: the lookup uses the event's path as it came
SeenByEventPath(ledger, ep, canon) == ep.via = "direct" /\ ep.file \in ledger

\* processed.contains(&path_str)
Seen(ledger, ep, canon) == canon \in ledger

\* faulty variant: the ledger is cleared when it reaches the cap
LedgerAfterMarkAtCap(ledger, canon) ==
    IF Cardinality(ledger \cup {canon}) >= LedgerCap THEN {} ELSE ledger \cup {canon}

\* processed.insert(path_str); if processed.len() > 1000 { processed.clear() }
LedgerAfterMark(ledger, canon) ==
    IF Cardinality(ledger \cup {canon}) > LedgerCap THEN {} ELSE ledger \cup {canon}

\* faulty variant: the call is spawned and main goes on
MainDuringSpawn(pc) == pc

\* main awaits process_file: it takes no other step until the call returns
MainDuringCall(pc) == "await"

\* faulty variant: the error is propagated out of main
MainAfterCallPropagate(result, resume) == IF result = "Failed" THEN "exited" ELSE resume

\* `if let Err(e) = archiver.process_file(path).await { eprintln!(..) }`:
\* main goes on where it was, whatever the result
MainAfterCall(result, resume) == resume

\* faulty variant: the source is removed once it is archived
SourceAfterRunRemoved(dir, file) == [g \in DOMAIN dir \ {file} |-> dir[g]]

\* process_file leaves the source where it is ("Don't delete original file")
SourceAfterRun(dir, file) == dir

NonTerminal == {"Stabilizing", "Stable", "Named", "Transcoded"}

Terminal == {"Done", "Failed"}

NoEv == [file |-> FileName(0, 0, 0, 0, "none"), outcome |-> "none",
         wasDone |-> FALSE, wasDoneEver |-> FALSE]

NoRet == [origin |-> "none", st |-> "none", err |-> "none",
          file |-> FileName(0, 0, 0, 0, "none")]

\* the call archiver.process_file(path): the extension check is made at once
StartRun(ep, origin) ==
    /\ runs' = runs \cup
         {[path |-> ep, origin |-> origin, slot |-> NoSlot,
           st |-> IF HasMp4Extension(ep.file) THEN "Stabilizing" ELSE "Failed",
           err |-> IF HasMp4Extension(ep.file) THEN "none" ELSE "extension",
           output_file |-> NoPath, nfo |-> NoNfo]}
    /\ mainpc' = MainDuringCall(mainpc)

SetRun(r, st, err, slot) ==
    runs' = (runs \ {r}) \cup {[r EXCEPT !.st = st, !.err = err, !.slot = slot,
                                         !.output_file = output_file(slot)]}

\* wait_for_file_ready returns: res is "ok", "timeout" or "ioerr"
WaitReturns(r, res) ==
    /\ r \in runs /\ r.st = "Stabilizing"
    /\ IF res = "ok"
       THEN SetRun(r, "Stable", "none", NoSlot)
       ELSE SetRun(r, "Failed", res, NoSlot)
    /\ UNCHANGED <<waitVars, mainVars, fsVars, histVars>>

\* date extraction, create_dir_all and the choice of the output file
NameStep(r, mkdirOk) ==
    /\ r \in runs /\ r.st = "Stable"
    /\ LET parsed == extract_date_from_filename(r.path.file)
       IN  IF ~parsed.ok
           THEN /\ SetRun(r, "Failed", "format", NoSlot)
                /\ UNCHANGED dirs
           ELSE IF ~mkdirOk
           THEN /\ SetRun(r, "Failed", "mkdir", NoSlot)
                /\ UNCHANGED dirs
           ELSE /\ SetRun(r, "Named", "none", ResolveName(outputs, parsed.date))
                /\ dirs' = dirs \cup {MonthDir(parsed.date)}
    /\ UNCHANGED <<waitVars, mainVars, watchDir, outputs, nfos, histVars>>

\* faulty variant: the exit status of ffmpeg is not looked at
AfterTranscodeUnchecked(success) == "Transcoded"

\* `if !status.success() { return Err(..) }`
AfterTranscode(success) == IF success THEN "Transcoded" ELSE "Failed"

\* ffmpeg returns: it never overwrites (-n), and a failed encode may leave a
\* partial output file behind
TranscodeReturns(r, res) ==
    /\ r \in runs /\ r.st = "Named"
    /\ LET success == res = "ok" /\ r.slot \notin outputs
       IN  /\ SetRun(r, AfterTranscode(success),
                     IF success THEN "none" ELSE "transcode", r.slot)
           /\ outputs' = IF success \/ res = "partial"
                         THEN outputs \cup {r.slot}
                         ELSE outputs
    /\ UNCHANGED <<waitVars, mainVars, watchDir, dirs, nfos, histVars>>

\* the sidecar is written and process_file returns Ok, or the write fails
WriteNfo(r, ok) ==
    /\ r \in runs /\ r.st = "Transcoded"
    /\ IF ok
       THEN /\ runs' = (runs \ {r}) \cup
                   {[r EXCEPT !.st = "Done",
                              !.nfo = NfoFile(extract_date_from_filename(r.path.file).date,
                                              r.slot)]}
            /\ nfos' = nfos \cup {r.slot}
            /\ watchDir' = SourceAfterRun(watchDir, r.path.file)
            /\ doneSlots' = doneSlots \cup {r.slot}
            /\ shared' = (shared \/ r.slot \in doneSlots)
       ELSE /\ SetRun(r, "Failed", "sidecar", r.slot)
            /\ UNCHANGED <<nfos, watchDir, doneSlots, shared,
                   launchTree>>
    /\ UNCHANGED <<waitVars, mainVars, dirs, outputs,
                   changes, lastEv, lastRet, doneSince, doneEver, marks, launchTree>>

\* faulty variant: the path is inserted whatever process_file returned
InsertsPathAlways(result) == TRUE

\* the event loop's match on the result: the path is inserted on Ok only
InsertsPath(result) == result = "Done"

\* process_file has returned to main: the startup scan only logs an error; the
\* event loop logs it, or inserts the canonical path into the ledger
RunReturn(r) ==
    /\ mainpc = "await"
    /\ r \in runs /\ r.st \in Terminal
    /\ runs' = runs \ {r}
    /\ mainpc' = MainAfterCall(r.st, IF r.origin = "scan" THEN "scan" ELSE "recv")
    /\ IF r.origin = "event"
       THEN /\ lastEv' = [lastEv EXCEPT !.outcome = IF r.st = "Done" THEN "done" ELSE "failed"]
            /\ IF InsertsPath(r.st)
               THEN /\ processed' = LedgerAfterMark(processed, r.path.file)
                    /\ marks' = marks + 1
               ELSE UNCHANGED <<processed, marks>>
            /\ doneEver' = IF r.st = "Done" THEN doneEver \cup {r.path.file} ELSE doneEver
            /\ doneSince' = IF InsertsPath(r.st) /\ processed' = {} THEN {}
                            ELSE IF r.st = "Done" THEN doneSince \cup {r.path.file}
                            ELSE doneSince
       ELSE UNCHANGED <<processed, marks, doneEver, doneSince, lastEv>>
    /\ lastRet' = [origin |-> r.origin, st |-> r.st, err |-> r.err, file |-> r.path.file]
    /\ UNCHANGED <<waitVars, toScan, chan, blocked, pending, fsVars,
                   changes, doneSlots, shared,
                   launchTree>>

\* ---------------------------------------------------------------------------
\* main: the startup scan
\* ---------------------------------------------------------------------------
\* one entry of read_dir(&watch_path)
ScanEntry(f) ==
    /\ mainpc = "scan"
    /\ f \in toScan
    /\ toScan' = toScan \ {f}
    /\ LET parsed == extract_date_from_filename(f)
       IN  IF /\ HasMp4Extension(f)
              /\ parsed.ok
              /\ divine_worship_file(parsed.date) \notin outputs
              /\ afternoon_program_file(parsed.date) \notin outputs
           THEN StartRun(EventPath(f, "direct"), "scan")
           ELSE UNCHANGED <<mainpc, runs>>
    /\ UNCHANGED <<waitVars, chan, blocked, pending, processed, fsVars, histVars>>

\* the scan is over: the channel and the watcher are set up
ArmWatcher ==
    /\ mainpc = "scan"
    /\ toScan = {}
    /\ mainpc' = "recv"
    /\ UNCHANGED <<waitVars, toScan, chan, blocked, pending, processed, runs,
                   fsVars, histVars>>

\* ---------------------------------------------------------------------------
\* main: the event loop
\* ---------------------------------------------------------------------------
Event(kind, paths) == [kind |-> kind, paths |-> paths]

\* faulty variant: every kind of event is handled
TriggersAlways(kind) == TRUE

\* the match on event.kind: EventKind::Create(_) | EventKind::Modify(_)
Triggers(kind) == kind \in {"create", "modify"}

\* rx.recv(): created and modified events are handled path by path, any other
\* kind is logged and ignored
RecvEvent ==
    /\ mainpc = "recv"
    /\ pending = <<>>
    /\ chan # <<>>
    /\ chan' = Tail(chan)
    /\ IF Triggers(Head(chan).kind)
       THEN pending' = Head(chan).paths /\ UNCHANGED lastEv
       ELSE pending' = <<>> /\ lastEv' = [NoEv EXCEPT !.outcome = "ignored"]
    /\ UNCHANGED <<waitVars, mainpc, toScan, blocked, processed, runs, fsVars,
                   changes, lastRet, doneSince, doneEver, marks, doneSlots, shared,
                   launchTree>>

\* one path of the event in hand
HandlePath ==
    /\ mainpc = "recv"
    /\ pending # <<>>
    /\ pending' = Tail(pending)
    /\ LET ep == Head(pending)
           canon == Canonicalize(ep, watchDir)
           ev == [file |-> canon.path, outcome |-> "none",
                  wasDone |-> canon.path \in doneSince,
                  wasDoneEver |-> canon.path \in doneEver]
       IN  IF ~canon.ok
           THEN /\ lastEv' = [ev EXCEPT !.outcome = "nocanon"]
                /\ UNCHANGED <<mainpc, runs>>
           ELSE IF Seen(processed, ep, canon.path)
           THEN /\ lastEv' = [ev EXCEPT !.outcome = "skipped"]
                /\ UNCHANGED <<mainpc, runs>>
           ELSE /\ lastEv' = [ev EXCEPT !.outcome = "running"]
                /\ StartRun(ep, "event")
    /\ UNCHANGED <<waitVars, toScan, chan, blocked, processed, fsVars,
                   changes, lastRet, doneSince, doneEver, marks, doneSlots, shared,
                   launchTree>>

\* ---------------------------------------------------------------------------
\* The watched directory and the watcher callback
\* ---------------------------------------------------------------------------
\* faulty variant: a send that gives up while the channel is full
NotifyOrDrop(ev) ==
    IF mainpc = "scan" \/ Len(chan) >= ChanCap
    THEN UNCHANGED <<chan, blocked>>
    ELSE chan' = Append(chan, ev) /\ UNCHANGED blocked

\* the callback's tx.blocking_send(event): the event enters the channel, or
\* waits in the notification thread while the channel is full; before the
\* watcher is set up no event is raised
Notify(ev) ==
    IF mainpc = "scan"
    THEN UNCHANGED <<chan, blocked>>
    ELSE IF blocked = <<>> /\ Len(chan) < ChanCap
         THEN chan' = Append(chan, ev) /\ UNCHANGED blocked
         ELSE blocked' = Append(blocked, ev) /\ UNCHANGED chan

\* the notification thread's blocked send goes through
Unblock ==
    /\ blocked # <<>>
    /\ Len(chan) < ChanCap
    /\ chan' = Append(chan, Head(blocked))
    /\ blocked' = Tail(blocked)
    /\ UNCHANGED <<waitVars, mainpc, toScan, pending, processed, runs,
                   fsVars, histVars>>

\* a recording appears in the watched directory; a directory listing that is
\* under way may or may not return it
CreateFile(f, via, listed) ==
    /\ f \notin DOMAIN watchDir
    /\ watchDir' = [g \in DOMAIN watchDir \cup {f} |-> IF g = f THEN 1 ELSE watchDir[g]]
    /\ toScan' = IF mainpc = "scan" /\ listed THEN toScan \cup {f} ELSE toScan
    /\ Notify(Event("create", <<EventPath(f, via)>>))
    /\ UNCHANGED <<waitVars, mainpc, pending, processed, runs, dirs, outputs, nfos,
                   lastEv, lastRet, doneSince, doneEver, marks, doneSlots, shared,
                   launchTree>>

\* a recording is removed from the watched directory
RemoveFile(f, via) ==
    /\ f \in DOMAIN watchDir
    /\ watchDir' = [g \in DOMAIN watchDir \ {f} |-> watchDir[g]]
    /\ Notify(Event("remove", <<EventPath(f, via)>>))
    /\ UNCHANGED <<waitVars, mainpc, toScan, pending, processed, runs, dirs, outputs,
                   nfos, lastEv, lastRet, doneSince, doneEver, marks, doneSlots, shared,
                   launchTree>>

\* the metadata of a recording changes (a second notification for one write,
\* a change of its attributes): a modify event, the content as it was
TouchFile(f, via) ==
    /\ f \in DOMAIN watchDir
    /\ Notify(Event("modify", <<EventPath(f, via)>>))
    /\ UNCHANGED <<waitVars, mainpc, toScan, pending, processed, runs, fsVars,
                   lastEv, lastRet, doneSince, doneEver, marks, doneSlots, shared,
                   launchTree>>

\* a recording is opened and closed without being changed: the watcher reports
\* an access, the file is as it was
AccessFile(f, via) ==
    /\ f \in DOMAIN watchDir
    /\ Notify(Event("access", <<EventPath(f, via)>>))
    /\ UNCHANGED <<waitVars, mainpc, toScan, pending, processed, runs, fsVars,
                   lastEv, lastRet, doneSince, doneEver, marks, doneSlots, shared,
                   launchTree>>

\* ---------------------------------------------------------------------------
\* Specification: a few recordings, every outcome of every stage
\* ---------------------------------------------------------------------------
\* changes the environment makes to the watched directory in one behaviour
MaxChanges == 2

D1 == [y |-> 2024, m |-> 12, d |-> 27]

Rec1 == FileName(2024, 12, 27, 1, "mp4")

Rec2 == FileName(2024, 12, 27, 2, "mp4")

BadName == FileName(2024, 13, 1, 1, "mp4")

TextFile == FileName(2024, 12, 27, 1, "txt")

Files == {Rec1, Rec2, BadName, TextFile}

Vias == {"direct", "link"}

WaitResults == {"ok", "timeout", "ioerr"}

TranscodeResults == {"ok", "fail", "partial"}

\* output trees the process may find at launch
InitialTrees ==
    { {},
      {Slot(D1, "dw", 0), Slot(D1, "ap", 0)},
      {Slot(D1, "dw", 0), Slot(D1, "ap", 0), Slot(D1, "ap", 2)} }

\* the wait of a call is not followed check by check here
WaitIdle ==
    /\ wpc = "idle"
    /\ i = 0
    /\ last_size = 0
    /\ last_modified = 0
    /\ stable_count = 0
    /\ lastObs = NoObs
    /\ same = 0

InitCommon ==
    /\ WaitIdle
    /\ mainpc = "scan"
    /\ chan = <<>>
    /\ blocked = <<>>
    /\ pending = <<>>
    /\ processed = {}
    /\ runs = {}
    /\ changes = 0
    /\ lastEv = NoEv
    /\ lastRet = NoRet
    /\ doneSince = {}
    /\ doneEver = {}
    /\ marks = 0
    /\ doneSlots = {}
    /\ shared = FALSE

Init ==
    /\ InitCommon
    /\ \E present \in SUBSET Files :
         /\ watchDir = [f \in present |-> 1]
         /\ toScan = present
    /\ outputs \in InitialTrees
    /\ nfos = outputs
    /\ launchTree = outputs
    /\ dirs = {MonthDir(s) : s \in outputs}

\* the environment's step counts as one change
Change == changes < MaxChanges /\ changes' = changes + 1

Next ==
    \/ \E f \in toScan : ScanEntry(f)
    \/ ArmWatcher
    \/ RecvEvent
    \/ HandlePath
    \/ \E r \in runs, res \in WaitResults : WaitReturns(r, res)
    \/ \E r \in runs, ok \in BOOLEAN : NameStep(r, ok)
    \/ \E r \in runs, res \in TranscodeResults : TranscodeReturns(r, res)
    \/ \E r \in runs, ok \in BOOLEAN : WriteNfo(r, ok)
    \/ \E r \in runs : RunReturn(r)
    \/ \E f \in Files, listed \in BOOLEAN : Change /\ CreateFile(f, "direct", listed)
    \/ \E f \in Files : Change /\ RemoveFile(f, "direct")
    \/ \E f \in Files : Change /\ TouchFile(f, "direct")
    \/ Change /\ AccessFile(Rec1, "direct")

Spec == Init /\ [][Next]_vars

\* ---------------------------------------------------------------------------
\* Specification: the event loop around the ledger's cap
\* ---------------------------------------------------------------------------
\* events the watcher raises in one behaviour
MaxLedgerChanges == 4

\* the k-th recording; each has a date of its own
LedgerFile(k) ==
    FileName(2024 + ((k - 1) \div 336), 1 + (((k - 1) \div 28) % 12),
             1 + ((k - 1) % 28), 1, "mp4")

\* recordings the event loop has archived, one after the other, before the
\* behaviour starts: none (the process was just started), or two fewer than
\* the ledger's cap
PriorArchived == {0, LedgerCap - 2}

Arrived == Cardinality(DOMAIN watchDir)

\* main waits on an empty channel
Quiet == mainpc = "recv" /\ chan = <<>> /\ pending = <<>> /\ runs = {}

\* the state main is in after the event loop has archived recordings 1..n,
\* each created, handled and marked before the next arrived
InitLedger ==
    /\ WaitIdle
    /\ toScan = {}
    /\ chan = <<>>
    /\ blocked = <<>>
    /\ pending = <<>>
    /\ runs = {}
    /\ changes = 0
    /\ shared = FALSE
    /\ \E n \in PriorArchived :
         LET old == {LedgerFile(k) : k \in 1..n}
             made == {Slot(extract_date_from_filename(f).date, "dw", 0) : f \in old}
         IN  /\ mainpc = IF n = 0 THEN "scan" ELSE "recv"
             /\ processed = old
             /\ watchDir = [f \in old |-> 1]
             /\ outputs = made
             /\ nfos = made
             /\ launchTree = made
             /\ dirs = {MonthDir(x) : x \in made}
             /\ marks = n
             /\ doneSince = old
             /\ doneEver = old
             /\ doneSlots = made
             /\ lastEv = IF n = 0 THEN NoEv
                         ELSE [file |-> LedgerFile(n), outcome |-> "done",
                               wasDone |-> FALSE, wasDoneEver |-> FALSE]
             /\ lastRet = IF n = 0 THEN NoRet
                          ELSE [origin |-> "event", st |-> "Done", err |-> "none",
                                file |-> LedgerFile(n)]

\* the watcher raises an event only while main waits on an empty channel
LedgerChange == Quiet /\ changes < MaxLedgerChanges /\ changes' = changes + 1

NextLedger ==
    \/ ArmWatcher
    \/ RecvEvent
    \/ HandlePath
    \/ \E r \in runs, res \in {"ok", "timeout"} : WaitReturns(r, res)
    \/ \E r \in runs : NameStep(r, TRUE)
    \/ \E r \in runs, res \in TranscodeResults : TranscodeReturns(r, res)
    \/ \E r \in runs, ok \in BOOLEAN : WriteNfo(r, ok)
    \/ \E r \in runs : RunReturn(r)
    \/ LedgerChange /\ CreateFile(LedgerFile(Arrived + 1), "direct", FALSE)
    \/ \E k \in {j \in 1..Arrived : j = 1 \/ j + 1 >= Arrived}, via \in Vias :
         LedgerChange /\ TouchFile(LedgerFile(k), via)

SpecLedger == InitLedger /\ [][NextLedger]_vars

\* ---------------------------------------------------------------------------
\* Specifications of the wait alone
\* ---------------------------------------------------------------------------
\* main and the file system as they stand while one call waits
FrameWait ==
    /\ mainpc = "await"
    /\ toScan = {}
    /\ chan = <<>>
    /\ blocked = <<>>
    /\ pending = <<>>
    /\ processed = {}
    /\ runs = {[path |-> EventPath(Rec1, "direct"), origin |-> "event",
                slot |-> NoSlot, st |-> "Stabilizing", err |-> "none",
                output_file |-> NoPath, nfo |-> NoNfo]}
    /\ watchDir = [f \in {Rec1} |-> 1]
    /\ dirs = {}
    /\ outputs = {}
    /\ nfos = {}
    /\ launchTree = {}
    /\ changes = 0
    /\ lastEv = [NoEv EXCEPT !.file = Rec1, !.outcome = "running"]
    /\ lastRet = NoRet
    /\ doneSince = {}
    /\ doneEver = {}
    /\ marks = 0
    /\ doneSlots = {}
    /\ shared = FALSE

frameVars == <<mainpc, toScan, chan, blocked, pending, processed, runs,
               watchDir, dirs, outputs, nfos,
               changes, lastEv, lastRet, doneSince, doneEver, marks, doneSlots, shared,
                   launchTree>>

\* the wait alone, for any sequence of metadata reads
NextWait ==
    \/ \E obs \in Observations : CheckOk(obs) /\ UNCHANGED <<lastObs, same, frameVars>>
    \/ CheckErr /\ UNCHANGED frameVars

InitWaitAlone == InitWait /\ FrameWait

SpecWait == InitWaitAlone /\ [][NextWait]_vars

\* wait_for_file_ready returns to process_file what the loop ended with, and
\* its locals are gone
WaitEnds(r) ==
    /\ wpc \in WaitResults
    /\ r \in runs /\ r.st = "Stabilizing"
    /\ IF wpc = "ok"
       THEN SetRun(r, "Stable", "none", NoSlot)
       ELSE SetRun(r, "Failed", wpc, NoSlot)
    /\ wpc' = "idle"
    /\ i' = 0
    /\ last_size' = 0
    /\ last_modified' = 0
    /\ stable_count' = 0
    /\ lastObs' = NoObs
    /\ same' = 0
    /\ UNCHANGED <<mainVars, fsVars, histVars>>

\* the recording is deleted while the call polls it
DeletedMidPoll == wpc = "polling" /\ changes = 0 /\ changes' = 1

\* the wait with the history of its reads, over its first MaxObserved checks,
\* and the rest of the call after it
NextStable ==
    \/ \E obs \in Observations :
         i < MaxObserved /\ CheckOk(obs) /\ Observe(obs) /\ UNCHANGED frameVars
    \/ i < MaxObserved /\ CheckErr /\ UNCHANGED frameVars
    \/ \E f \in DOMAIN watchDir : DeletedMidPoll /\ RemoveFile(f, "direct")
    \/ \E r \in runs : WaitEnds(r)
    \/ \E r \in runs : NameStep(r, TRUE)
    \/ \E r \in runs, res \in TranscodeResults : TranscodeReturns(r, res)
    \/ \E r \in runs, ok \in BOOLEAN : WriteNfo(r, ok)
    \/ \E r \in runs : RunReturn(r)
    \/ RecvEvent

SpecStable == InitWaitAlone /\ [][NextStable]_vars

\* ---------------------------------------------------------------------------
\* Properties of wait_for_file_ready
\* ---------------------------------------------------------------------------

\* number of metadata reads made so far
ChecksDone == IF wpc \in {"ok", "ioerr"} THEN i + 1 ELSE i

\* C2: success is reported only at a check where the 16 most recent reads are
\* identical and non-empty, and a wait still polling has not yet seen such a
\* run (so a file stalling from check k on succeeds exactly at check k+15).
C2_SuccessOnlyAfterSixteenEqualReads ==
    /\ wpc = "ok" => (same >= 16 /\ lastObs.size > 0)
    /\ wpc = "polling" => same < 16

\* C3: the wait makes at most 7200 reads; it is still polling only before the
\* 7200th, and it ends in the timeout failure exactly when all 7200 reads were
\* made without reaching the threshold.
C3_TimeoutAfterLastCheck ==
    /\ ChecksDone <= 7200
    /\ wpc = "polling" => i < 7200
    /\ wpc = "timeout" <=> i = 7200
    /\ wpc = "timeout" => stable_count < 15

\* C3 witness: a wait that used all 7200 reads and timed out on an empty file
C3_Witness == wpc = "timeout" /\ i = 7200 /\ last_size = 0

\* ---------------------------------------------------------------------------
\* Properties of the pipeline and of main
\* ---------------------------------------------------------------------------

\* the capture date a run's file name holds
DateOf(r) == [y |-> r.path.file.y, m |-> r.path.file.m, d |-> r.path.file.d]

\* an event path that was canonicalized: it was looked up in the ledger
LookedUp == lastEv.outcome \in {"skipped", "running", "done", "failed"}

\* C1 (as stated): an event for a path whose event run reached Done is skipped
\* and starts no run, whatever the ledger's size was.
C1_DoneThenAlwaysSkipped ==
    (LookedUp /\ lastEv.wasDoneEver) => lastEv.outcome = "skipped"

\* C1 (amended): an event for a path whose event run reached Done is skipped,
\* and no run is under way for such a path, as long as the ledger has not been
\* cleared since that run's path was marked.
C1_DoneThenSkippedUntilCleared ==
    /\ (LookedUp /\ lastEv.wasDone) => lastEv.outcome = "skipped"
    /\ \A r \in runs : r.origin = "event" => r.path.file \notin doneSince

\* C1 witness: the second event for the recording archived last was skipped
\* with the ledger at its cap
C1_Witness ==
    /\ lastEv.wasDone
    /\ lastEv.outcome = "skipped"
    /\ lastEv.file = LedgerFile(Arrived)
    /\ Cardinality(processed) = LedgerCap

\* C4: the ledger never holds more than 1000 paths; every insert adds one path
\* and the 1001st empties the ledger, so its size is the number of inserts
\* modulo 1001; and a path marked before the last clear is looked up as not
\* seen.
C4_LedgerClearedOnlyOverCap ==
    /\ Cardinality(processed) <= 1000
    /\ Cardinality(processed) = marks % 1001
    /\ (LookedUp /\ lastEv.wasDoneEver /\ ~lastEv.wasDone) => lastEv.outcome # "skipped"

\* C4 witness: after 1001 inserts the ledger is empty and an event for the
\* first recording starts a run
C4_Witness ==
    /\ marks = 1001
    /\ processed = {}
    /\ lastEv.file = LedgerFile(1)
    /\ lastEv.outcome = "running"

\* C5: a run that has chosen its output has the primary category when no
\* primary output exists for its date, and the unsuffixed secondary category
\* when the primary exists and the unsuffixed secondary does not.
C5_PrimaryThenSecondary ==
    \A r \in runs : r.st = "Named" =>
        /\ Slot(DateOf(r), "dw", 0) \notin outputs => r.slot = Slot(DateOf(r), "dw", 0)
        /\ (Slot(DateOf(r), "dw", 0) \in outputs /\ Slot(DateOf(r), "ap", 0) \notin outputs)
              => r.slot = Slot(DateOf(r), "ap", 0)

\* C5 witness: a run given the unsuffixed secondary category
C5_Witness ==
    \E r \in runs : /\ r.st = "Named"
                    /\ r.slot = Slot(D1, "ap", 0)
                    /\ Slot(D1, "dw", 0) \in outputs

\* C6: when the primary and the unsuffixed secondary output exist, the run has
\* the secondary category with the least suffix n >= 1 whose file does not
\* exist.
C6_LeastFreeSuffix ==
    \A r \in runs :
        (/\ r.st = "Named"
         /\ Slot(DateOf(r), "dw", 0) \in outputs
         /\ Slot(DateOf(r), "ap", 0) \in outputs)
        => /\ r.slot.cat = "ap"
           /\ r.slot.n >= 1
           /\ r.slot = Slot(DateOf(r), "ap", r.slot.n)
           /\ r.slot \notin outputs
           /\ \A k \in 1..(r.slot.n - 1) : Slot(DateOf(r), "ap", k) \in outputs

\* C6 witness: the fourth recording of a date is given suffix (2)
C6_Witness ==
    \E r \in runs : /\ r.st = "Named"
                    /\ r.slot = Slot(D1, "ap", 2)
                    /\ Slot(D1, "ap", 1) \in doneSlots

\* C7: the output a run has chosen does not exist while the run has not yet
\* transcoded, and no two runs reach Done on the same output.
C7_ResolvedOutputIsFree ==
    /\ \A r \in runs : r.st = "Named" => r.slot \notin outputs
    /\ ~shared

\* C7 witness: two runs reached Done, and a third has chosen its output
C7_Witness ==
    /\ Cardinality(doneSlots) >= 2
    /\ \E r \in runs : r.st = "Named"

\* C8: main never exits; when a failed call returns, the startup scan goes on
\* with its entries and the event loop with its events.
C8_FailureNeverEndsMain ==
    [][ /\ mainpc' # "exited"
        /\ \A r \in runs :
             (r.st = "Failed" /\ r \notin runs')
             => mainpc' = (IF r.origin = "scan" THEN "scan" ELSE "recv") ]_vars

\* C8 witness: after a failed run of the event loop the next event's run is
\* under way
C8_Witness ==
    /\ lastRet.st = "Failed"
    /\ lastRet.origin = "event"
    /\ \E r \in runs : r.origin = "event" /\ r.st = "Stabilizing"

\* C9: every step that is not a change made by the environment leaves every
\* file of the watched directory in place with its content.
C9_SourceUntouched ==
    [][ changes' = changes => watchDir' = watchDir ]_vars

\* C9 witness: a run reached Done and its source is there as it was
C9_Witness ==
    \E r \in runs : /\ r.st = "Done"
                    /\ r.path.file \in DOMAIN watchDir
                    /\ watchDir[r.path.file] = 1

\* C10: at most one call of process_file is in a non-terminal state, at most
\* one transcode is under way, and main awaits that call.
C10_OneFileAtATime ==
    /\ Cardinality({r \in runs : r.st \in NonTerminal}) <= 1
    /\ Cardinality({r \in runs : r.st = "Named"}) <= 1
    /\ Cardinality(runs) <= 1
    /\ runs # {} => mainpc = "await"

\* C10 witness: a transcode is under way while a further event waits in the channel
C10_Witness ==
    /\ \E r \in runs : r.st = "Named" /\ r.origin = "event"
    /\ Len(chan) = 1

\* ---------------------------------------------------------------------------
\* Specification: the channel between the watcher and main, filled to its cap
\* ---------------------------------------------------------------------------
\* events the watcher raises beyond the channel's capacity
QueueExtra == 3

MaxQueueEvents == ChanCap + QueueExtra

\* the k-th file dropped into the watched directory; process_file refuses its
\* extension at once, so that main is back at rx.recv() after each event
QueueFile(k) == FileName(2024, 1, 1, k, "txt")

QueueEvent(k) == Event("create", <<EventPath(QueueFile(k), "direct")>>)

InitQueue ==
    /\ InitCommon
    /\ watchDir = [f \in {} |-> 1]
    /\ toScan = {}
    /\ outputs = {}
    /\ nfos = {}
    /\ launchTree = {}
    /\ dirs = {}

\* the watcher raises its events once it is set up
QueueChange == mainpc # "scan" /\ changes < MaxQueueEvents /\ changes' = changes + 1

NextQueue ==
    \/ ArmWatcher
    \/ RecvEvent
    \/ HandlePath
    \/ \E r \in runs : RunReturn(r)
    \/ Unblock
    \/ QueueChange /\ CreateFile(QueueFile(changes + 1), "direct", FALSE)

\* main is a task the runtime keeps scheduling and process_file returns at
\* once for these files; the notification thread is a thread of its own
SpecQueue ==
    /\ InitQueue
    /\ [][NextQueue]_vars
    /\ WF_vars(ArmWatcher)
    /\ WF_vars(RecvEvent)
    /\ WF_vars(HandlePath)
    /\ WF_vars(\E r \in runs : RunReturn(r))
    /\ WF_vars(Unblock)

\* ---------------------------------------------------------------------------
\* Properties of the channel
\* ---------------------------------------------------------------------------
\* events the callback was given, and events main took from the channel
Sent == changes

Taken ==
    IF pending # <<>> THEN pending[1].file.t
    ELSE IF lastEv.outcome = "none" THEN 0 ELSE lastEv.file.t

\* events on their way: in the channel, then in the blocked sends
InFlight == chan \o blocked

\* C11: the channel never holds more than 100 events; a send waits only when
\* the channel is full or behind a send that already waits; the events on their
\* way are exactly those sent and not yet taken, in the order sent; and main
\* keeps catching up with everything that was sent.
C11_BoundedLosslessFifo ==
    /\ [](/\ Len(chan) <= 100
          /\ Len(InFlight) = Sent - Taken
          /\ \A j \in 1..Len(InFlight) : InFlight[j] = QueueEvent(Taken + j))
    /\ [][Len(blocked') > Len(blocked) => (Len(chan) = 100 \/ blocked # <<>>)]_vars
    /\ []<>(Taken = Sent)

\* C11 witness: the channel holds 100 events and a further send waits
C11_Witness == Len(chan) = 100 /\ blocked # <<>> /\ Taken = 2

\* ---------------------------------------------------------------------------
\* Properties of the ledger across the startup scan and the event loop
\* ---------------------------------------------------------------------------

\* C12: the path of the call that returned last with Done, whether the scan or
\* the event loop made it, is in the ledger, and an event for the path of a
\* recording that the last call archived is skipped.
C12_EveryDoneIsMarked ==
    /\ lastRet.st = "Done" => lastRet.file \in processed
    /\ (lastRet.st = "Done" /\ LookedUp /\ lastEv.file = lastRet.file
          /\ lastEv.outcome # "done")
       => lastEv.outcome = "skipped"

\* ---------------------------------------------------------------------------
\* Properties of the startup scan
\* ---------------------------------------------------------------------------

\* the scan's three conditions on a directory entry, for an output tree
Unarchived(tree, f) ==
    /\ HasMp4Extension(f)
    /\ extract_date_from_filename(f).ok
    /\ divine_worship_file(extract_date_from_filename(f).date) \notin tree
    /\ afternoon_program_file(extract_date_from_filename(f).date) \notin tree

\* C13: when the scan visits a directory entry it calls process_file for it if
\* and only if the entry has the accepted extension, its name holds a date and
\* neither the primary nor the unsuffixed secondary output for that date was in
\* the output tree at launch (so two unarchived recordings of one date both get
\* their run).
C13_ScanRunsWhatWasUnarchivedAtLaunch ==
    [][\A f \in toScan :
         (mainpc = "scan" /\ f \notin toScan')
         => ((\E r \in runs' : r.path.file = f /\ r.origin = "scan")
             <=> Unarchived(launchTree, f))]_vars

\* ---------------------------------------------------------------------------
\* Specification: one recording of any date, from its event to its sidecar
\* ---------------------------------------------------------------------------
\* events the watcher raises in one behaviour
MaxDeriveChanges == 2

DeriveYears == {1999, 2024}

DeriveDays == {1, 9, 10, 27, 31}

\* a recording named after a capture time of the given date
DeriveFile(y, m, d) == FileName(y, m, d, 1, "mp4")

InitDerive ==
    /\ InitCommon
    /\ watchDir = [f \in {} |-> 1]
    /\ toScan = {}
    /\ outputs = {}
    /\ nfos = {}
    /\ launchTree = {}
    /\ dirs = {}

DeriveChange == Quiet /\ changes < MaxDeriveChanges /\ changes' = changes + 1

NextDerive ==
    \/ ArmWatcher
    \/ RecvEvent
    \/ HandlePath
    \/ \E r \in runs : WaitReturns(r, "ok")
    \/ \E r \in runs : NameStep(r, TRUE)
    \/ \E r \in runs, res \in TranscodeResults : TranscodeReturns(r, res)
    \/ \E r \in runs : WriteNfo(r, TRUE)
    \/ \E r \in runs : RunReturn(r)
    \/ \E y \in DeriveYears, m \in 1..12, d \in DeriveDays :
         DeriveChange /\ DOMAIN watchDir = {} /\ CreateFile(DeriveFile(y, m, d), "direct", FALSE)
    \/ \E f \in DOMAIN watchDir : DeriveChange /\ TouchFile(f, "direct")

SpecDerive == InitDerive /\ [][NextDerive]_vars

\* ---------------------------------------------------------------------------
\* Properties of the derived path and sidecar
\* ---------------------------------------------------------------------------
\* the number a sequence of decimal digits stands for
RECURSIVE DigitsValue(_)
DigitsValue(ds) ==
    IF ds = <<>> THEN 0
    ELSE 10 * DigitsValue(SubSeq(ds, 1, Len(ds) - 1)) + ds[Len(ds)]

\* a number printed with exactly w digits
Shows(ds, w, n) == Len(ds) = w /\ DigitsValue(ds) = n

\* C14: a run that reached Done with no other output for its capture date
\* Y-M-D wrote the video <Y>/<MM>-<month name>/Divine Worship Service - RTSDA |
\* <month name> <DD> <Y>.mp4, month and day in two digits, and a sidecar of the
\* same base name with season Y, episode MMDD and aired date Y-MM-DD; for
\* 2024-12-27 that is 2024/12-December, season 2024, episode 1227.
C14_PathAndSidecarFromDate ==
    \A r \in runs :
      (r.st = "Done" /\ \A s \in outputs : (s.y = r.slot.y /\ s.m = r.slot.m /\ s.d = r.slot.d) => s = r.slot)
      => LET Y == r.path.file.y
             M == r.path.file.m
             D == r.path.file.d
             name == CASE M = 1 -> "January" [] M = 2 -> "February" [] M = 3 -> "March"
                       [] M = 4 -> "April" [] M = 5 -> "May" [] M = 6 -> "June"
                       [] M = 7 -> "July" [] M = 8 -> "August" [] M = 9 -> "September"
                       [] M = 10 -> "October" [] M = 11 -> "November" [] M = 12 -> "December"
             p == r.output_file
         IN  /\ r.slot \in outputs /\ r.slot \in nfos
             /\ Shows(p.year_dir, 4, Y)
             /\ Shows(p.month_dir.num, 2, M) /\ p.month_dir.name = name
             /\ p.base.tag = "Divine Worship Service" /\ p.base.show = "RTSDA"
             /\ p.base.month = name /\ Shows(p.base.day, 2, D) /\ Shows(p.base.year, 4, Y)
             /\ p.base.suffix = 0 /\ p.ext = "mp4"
             /\ r.nfo.path = [p EXCEPT !.ext = "nfo"]
             /\ Shows(r.nfo.season, 4, Y)
             /\ Shows(r.nfo.episode, 4, 100 * M + D)
             /\ Len(r.nfo.aired) = 3
             /\ Shows(r.nfo.aired[1], 4, Y) /\ Shows(r.nfo.aired[2], 2, M)
             /\ Shows(r.nfo.aired[3], 2, D)
             /\ (Y = 2024 /\ M = 12 /\ D = 27) =>
                  /\ p.year_dir = <<2, 0, 2, 4>>
                  /\ p.month_dir = [num |-> <<1, 2>>, name |-> "December"]
                  /\ r.nfo.season = <<2, 0, 2, 4>>
                  /\ r.nfo.episode = <<1, 2, 2, 7>>
                  /\ r.nfo.aired = << <<2, 0, 2, 4>>, <<1, 2>>, <<2, 7>> >>

\* C14 witness: the recording of 2024-02-09 reached Done as the first of its date
C14_Witness ==
    \E r \in runs :
      /\ r.st = "Done" /\ r.path.file = DeriveFile(2024, 2, 9)
      /\ r.slot.cat = "dw"
      /\ r.nfo.episode = <<0, 2, 0, 9>>

\* ---------------------------------------------------------------------------
\* Properties of the stability counter
\* ---------------------------------------------------------------------------

\* C15: on every check whose metadata read succeeded, the counter becomes one
\* more than it was if the read is non-empty and equal in size and modification
\* time to the read of the previous check, and zero otherwise (the size
\* changed, the modification time changed, or the file is empty).
C15_CounterStepRule ==
    [][(wpc = "polling" /\ (i' = i + 1 \/ wpc' = "ok"))
       => stable_count' = IF lastObs'.size > 0 /\ lastObs' = lastObs
                          THEN stable_count + 1
                          ELSE 0]_vars

\* ---------------------------------------------------------------------------
\* Properties of the order of the stages
\* ---------------------------------------------------------------------------
\* the steps a call of process_file may take from one stage to the next
StageOrder ==
    {<<"Stabilizing", "Stable">>, <<"Stable", "Named">>, <<"Named", "Transcoded">>,
     <<"Transcoded", "Done">>} \cup (NonTerminal \X {"Failed"})

\* C16: a call starts at the stability wait (after the ledger lookup, for an
\* event) and moves one stage at a time in the order wait, date and naming,
\* transcode, sidecar, or to Failed, where it stays; an output is written only by
\* a call that has been named, which had its wait succeed and its date parsed;
\* a sidecar is written only by a call whose transcode succeeded, next to that
\* call's video; the ledger changes only when a call that reached Done returns.
C16_StagesInOrder ==
    /\ [](\A r \in runs :
            /\ r.st \in {"Named", "Transcoded", "Done"}
               => (extract_date_from_filename(r.path.file).ok /\ r.slot # NoSlot)
            /\ r.st \in {"Transcoded", "Done"} => (r.err = "none" /\ r.slot \in outputs)
            /\ r.st = "Done" => r.slot \in nfos)
    /\ [][/\ \A r \in runs, q \in runs' :
               (q.path = r.path /\ q.origin = r.origin /\ q.st # r.st)
               => <<r.st, q.st>> \in StageOrder
          /\ \A q \in runs' \ runs :
               runs = {} =>
                 /\ q.st \in {"Stabilizing", "Failed"}
                 /\ q.origin = "event" =>
                      (lastEv'.outcome = "running" /\ q.path.file \notin processed)
          /\ outputs' # outputs => \E r \in runs : r.st = "Named"
          /\ nfos' # nfos =>
               \E r \in runs : /\ r.st = "Transcoded" /\ r.err = "none"
                               /\ r.slot \in outputs
                               /\ nfos' = nfos \cup {r.slot}
          /\ processed' # processed =>
               \E r \in runs : r.st = "Done" /\ r \notin runs']_vars

\* C16 witness: a transcode failed leaving a partial video, and no sidecar was
\* written next to it
C16_Witness ==
    /\ lastRet.st = "Failed" /\ lastRet.err = "transcode"
    /\ \E s \in outputs \ launchTree : s \notin nfos
    /\ runs = {}

\* ---------------------------------------------------------------------------
\* Specification: recordings that arrive while the process runs
\* ---------------------------------------------------------------------------
\* changes the environment makes in one behaviour
MaxArriveChanges == 2

\* recordings of dates of their own that are not there at launch
ArriveFiles == {FileName(2024, 12, 28, 1, "mp4"), FileName(2024, 12, 29, 1, "mp4")}

InitArrive ==
    /\ InitCommon
    /\ \E present \in SUBSET {Rec1} :
         /\ watchDir = [f \in present |-> 1]
         /\ toScan = present
    /\ outputs = {}
    /\ nfos = {}
    /\ launchTree = {}
    /\ dirs = {}

ArriveChange == changes < MaxArriveChanges /\ changes' = changes + 1

NextArrive ==
    \/ \E f \in toScan : ScanEntry(f)
    \/ ArmWatcher
    \/ RecvEvent
    \/ HandlePath
    \/ \E r \in runs, res \in {"ok", "timeout"} : WaitReturns(r, res)
    \/ \E r \in runs : NameStep(r, TRUE)
    \/ \E r \in runs, res \in TranscodeResults : TranscodeReturns(r, res)
    \/ \E r \in runs, ok \in BOOLEAN : WriteNfo(r, ok)
    \/ \E r \in runs : RunReturn(r)
    \/ \E f \in ArriveFiles, listed \in BOOLEAN :
         ArriveChange /\ CreateFile(f, "direct", listed)

\* main is a task the runtime keeps scheduling, and every wait, transcode and
\* write is taken to return; the environment is under no obligation
SpecArrive ==
    /\ InitArrive
    /\ [][NextArrive]_vars
    /\ WF_vars(\E f \in toScan : ScanEntry(f))
    /\ WF_vars(ArmWatcher)
    /\ WF_vars(RecvEvent)
    /\ WF_vars(HandlePath)
    /\ WF_vars(\E r \in runs, res \in {"ok", "timeout"} : WaitReturns(r, res))
    /\ WF_vars(\E r \in runs : NameStep(r, TRUE))
    /\ WF_vars(\E r \in runs, res \in TranscodeResults : TranscodeReturns(r, res))
    /\ WF_vars(\E r \in runs, ok \in BOOLEAN : WriteNfo(r, ok))
    /\ WF_vars(\E r \in runs : RunReturn(r))

\* ---------------------------------------------------------------------------
\* Properties of arrivals
\* ---------------------------------------------------------------------------

\* C17: a recording of the accepted extension that has appeared in the watched
\* directory since the process started, during the startup scan or after it, is
\* eventually given a call of process_file.
C17_EveryArrivalGetsARun ==
    \A f \in ArriveFiles :
      <>(f \in DOMAIN watchDir) => <>(\E r \in runs : r.path.file = f)

\* ---------------------------------------------------------------------------
\* Properties of the event kinds
\* ---------------------------------------------------------------------------

\* C18: when main takes an event that is neither a created nor a modified
\* notification from the channel, no path of it is handled, no call of
\* process_file starts, and the ledger and the output tree stay as they are.
C18_OtherKindsIgnored ==
    [][(Len(chan') < Len(chan) /\ Head(chan).kind \notin {"create", "modify"})
       => /\ pending' = <<>>
          /\ mainpc' = "recv"
          /\ runs' = runs
          /\ processed' = processed
          /\ <<dirs', outputs', nfos'>> = <<dirs, outputs, nfos>>]_vars

\* C18 witness: an access notification for a recording that has no output yet
\* was ignored; main waits for the next event and the output tree is empty
C18_Witness ==
    /\ lastEv.outcome = "ignored"
    /\ mainpc = "recv" /\ pending = <<>> /\ chan = <<>> /\ runs = {}
    /\ Rec1 \in DOMAIN watchDir
    /\ outputs = {} /\ processed = {}

\* ---------------------------------------------------------------------------
\* Properties of a failed metadata read
\* ---------------------------------------------------------------------------
\* the file a call is waiting for has been deleted
WaitedFileGone ==
    \E r \in runs : r.st = "Stabilizing" /\ r.path.file \notin DOMAIN watchDir

\* C19: a check made once the waited file is gone ends the wait with the I/O
\* error on that very check; after the I/O error no further check is made, the
\* call fails with it, and a call that failed so leaves no directory, no output,
\* no sidecar and no ledger entry.
C19_ReadErrorFailsAtOnce ==
    /\ []((lastRet.err = "ioerr" \/ \E r \in runs : r.err = "ioerr")
          => (dirs = {} /\ outputs = {} /\ nfos = {} /\ processed = {}))
    /\ [][/\ (wpc = "polling" /\ WaitedFileGone /\ <<wpc', i'>> # <<wpc, i>>)
             => (wpc' = "ioerr" /\ i' = i)
          /\ wpc = "ioerr"
             => \/ wpc' = "ioerr" /\ i' = i
                \/ /\ wpc' = "idle"
                   /\ runs' # {}
                   /\ \A r \in runs' : r.st = "Failed" /\ r.err = "ioerr"
          /\ \A r \in runs : r.err = "ioerr" => (r \in runs' \/ runs' = {})]_vars

\* C19 witness: the recording was deleted after some checks, and the call has
\* returned to main with the I/O error
C19_Witness ==
    /\ lastRet.st = "Failed" /\ lastRet.err = "ioerr"
    /\ Rec1 \notin DOMAIN watchDir
    /\ runs = {} /\ outputs = {} /\ nfos = {} /\ processed = {}

\* ---------------------------------------------------------------------------
\* Properties of the ledger after skipped and failed calls
\* ---------------------------------------------------------------------------

\* C20: the ledger holds exactly the canonical paths whose event call reached
\* Done since the ledger was last cleared; an event path that is skipped, that
\* cannot be canonicalized or whose call failed leaves the ledger as it was;
\* and an event for a path with no such Done call, a path whose call failed
\* included, is not skipped.
C20_LedgerHoldsOnlyDonePaths ==
    /\ [](/\ processed = doneSince
          /\ (LookedUp /\ ~lastEv.wasDone) => lastEv.outcome # "skipped")
    /\ [][(lastEv' # lastEv /\ lastEv'.outcome \in {"skipped", "nocanon", "failed"})
          => processed' = processed]_vars

\* C20 witness: the call for a path failed, the path is not in the ledger, and
\* the next event for the same path has started a fresh call
C20_Witness ==
    /\ lastRet.origin = "event" /\ lastRet.st = "Failed"
    /\ lastEv.outcome = "running" /\ lastEv.file = lastRet.file
    /\ lastEv.file \notin processed
    /\ \E r \in runs : r.path.file = lastRet.file /\ r.st = "Stabilizing"

====
